---- MODULE Spec2Model ----
(***************************************************************************)
(* Model of rl_exercises/week_2/my_env.py: class MyEnv, a small            *)
(* deterministic MDP with a clamped left/right move, a per-state reward    *)
(* table, a horizon, a reward-per-action table and a transition tensor.    *)
(*                                                                         *)
(* Probabilities are modelled as integers k in 0..PScale standing for the  *)
(* float k/PScale; rewards are integers (float(x) keeps the value).        *)
(***************************************************************************)
EXTENDS Integers, FiniteSets, Sequences, TLC

\* ---------------------------------------------------------------- bounds
MaxN == 3          \* largest state count n explored under Spec
MaxNT == 2         \* largest state count n explored under SpecT
MaxReward == 1     \* rewards are drawn from 0..MaxReward
MaxHorizon == 1    \* horizons are drawn from 0..MaxHorizon
PScale == 2        \* probabilities are k/PScale, k in 0..PScale

\* ------------------------------------------------------ program constants
DefaultHorizon == 10   \* horizon=10 in the signature of __init__
NoAttr == -1           \* the attribute transition_count does not exist yet

VARIABLES
    n,                 \* observation_space.n = action_space.n = P.shape[0]
    P,                 \* self.P
    rewards,           \* self.rewards
    horizon,           \* self.horizon
    state,             \* self.state
    transition_count,  \* self.transition_count, NoAttr until reset assigns it
    T,                 \* self.T = self.transition_matrix, cached by __init__
    call,              \* the last call: its name, argument and the fields it found
    ret,               \* the outcome of the last call: return value or exception
    steps              \* valid step calls since construction/reset, saturating

vars == <<n, P, rewards, horizon, state, transition_count, T, call, ret, steps>>

config == <<n, P, rewards, horizon, T>>

Max(a, b) == IF a >= b THEN a ELSE b
Min(a, b) == IF a <= b THEN a ELSE b

\* ----------------------------------------------------------------- step
\* gym.spaces.Discrete(n).contains(action), start = 0
ActionSpaceContains_NoUpper(action) == 0 <= action /\ action <= n
ActionSpaceContains(action) == 0 <= action /\ action < n

\* self.state = max(0, min(self.observation_space.n - 1, self.state + (-1 if action == 0 else 1)))
StepState(action) ==
    Max(0, Min(n - 1, state + (IF action = 0 THEN -1 ELSE 1)))

\* reward = float(self.rewards[self.state]), read after self.state was written
StepReward_OfStateLeft(newState) == rewards[state]
StepReward(newState) == rewards[newState]

\* terminated = False
StepTerminated_AtLastState(newState) == newState = n - 1
StepTerminated(newState) == FALSE

\* truncated = self.transition_count >= self.horizon
StepTruncated_Strict == transition_count > horizon
StepTruncated_Flipped == transition_count <= horizon
StepTruncated == transition_count >= horizon

Step(action) ==
    /\ call' = [op |-> "step", action |-> action, state |-> state,
                transition_count |-> transition_count]
    /\ IF ~ActionSpaceContains(action)
       THEN /\ ret' = [op |-> "step", kind |-> "raise", error |-> "RuntimeError"]
            /\ UNCHANGED <<state, steps>>
       ELSE /\ state' = StepState(action)
            /\ steps' = Min(steps + 1, MaxHorizon + 1)
            /\ IF transition_count = NoAttr
               THEN ret' = [op |-> "step", kind |-> "raise",
                            error |-> "AttributeError"]
               ELSE ret' = [op |-> "step", kind |-> "return",
                            next_state |-> state',
                            reward |-> StepReward(state'),
                            terminated |-> StepTerminated(state'),
                            truncated |-> StepTruncated,
                            info |-> {}]
    /\ UNCHANGED <<config, transition_count>>

\* ---------------------------------------------------------------- reset
ResetState_Keep == state
ResetState == 0

Reset ==
    /\ call' = [op |-> "reset", action |-> 0, state |-> state,
                transition_count |-> transition_count]
    /\ transition_count' = 0
    /\ state' = ResetState
    /\ ret' = [op |-> "reset", kind |-> "return", state |-> state', info |-> {}]
    /\ steps' = 0
    /\ UNCHANGED config

\* ------------------------------------------------ get_reward_per_action
\* nxt = max(0, min(nS - 1, s + (-1 if a == 0 else 1)))
RewardNxt_Swapped(nS, s, a) == Max(0, Min(nS - 1, s + (IF a = 0 THEN 1 ELSE -1)))
RewardNxt(nS, s, a) == Max(0, Min(nS - 1, s + (IF a = 0 THEN -1 ELSE 1)))

get_reward_per_action ==
    LET nS == n
        nA == n
    IN  [s \in 0..(nS - 1) |-> [a \in 0..(nA - 1) |-> rewards[RewardNxt(nS, s, a)]]]

GetRewardPerAction ==
    /\ call' = [op |-> "get_reward_per_action", action |-> 0, state |-> state,
                transition_count |-> transition_count]
    /\ ret' = [op |-> "get_reward_per_action", kind |-> "return",
               R |-> get_reward_per_action]
    /\ UNCHANGED <<config, state, transition_count, steps>>

\* ------------------------------------------------ get_transition_matrix
states == 0..(n - 1)    \* self.states = np.arange(n)
actions == 0..(n - 1)   \* self.actions = np.arange(n)

\* s_next = max(0, min(nS - 1, s + (-1 if a == 0 else 1)))
TransSNext_NoFloor(nS, s, a) == Max(s, Min(nS - 1, s + (IF a = 0 THEN -1 ELSE 1)))
TransSNext(nS, s, a) == Max(0, Min(nS - 1, s + (IF a = 0 THEN -1 ELSE 1)))

\* An optional argument is <<>> for None and <<v>> for the value v.
get_transition_matrix(S, A, Pm) ==
    LET useSelf == S = <<>> \/ A = <<>> \/ Pm = <<>>
        S1 == IF useSelf THEN states ELSE S[1]
        A1 == IF useSelf THEN actions ELSE A[1]
        P1 == IF useSelf THEN P ELSE Pm[1]
        nS == Cardinality(S1)
        nA == Cardinality(A1)
    IN  [s \in 0..(nS - 1) |-> [a \in 0..(nA - 1) |-> [s2 \in 0..(nS - 1) |->
            IF s \in S1 /\ a \in A1 /\ s2 = TransSNext(nS, s, a)
            THEN P1[s][a] ELSE 0]]]

GetTransitionMatrix ==
    /\ call' = [op |-> "get_transition_matrix", action |-> 0, state |-> state,
                transition_count |-> transition_count]
    /\ ret' = [op |-> "get_transition_matrix", kind |-> "return",
               T |-> get_transition_matrix(<<>>, <<>>, <<>>)]
    /\ UNCHANGED <<config, state, transition_count, steps>>

\* ------------------------------------------------------------- __init__
Constructed ==
    /\ state = 0
    /\ transition_count = NoAttr
    /\ T = get_transition_matrix(<<>>, <<>>, <<>>)
    /\ call = [op |-> "__init__", action |-> 0, state |-> 0,
               transition_count |-> NoAttr]
    /\ ret = [op |-> "__init__", kind |-> "return"]
    /\ steps = 0

\* MyEnv(np.ones((n, n)), horizon, rewards)
Init ==
    /\ n \in 1..MaxN
    /\ P = [s \in 0..(n - 1) |-> [a \in 0..(n - 1) |-> PScale]]
    /\ rewards \in [0..(n - 1) -> 0..MaxReward]
    /\ horizon \in 0..MaxHorizon
    /\ Constructed

\* MyEnv(P) with every n x n matrix P over [0, 1], default horizon
InitT ==
    /\ n \in 1..MaxNT
    /\ P \in [0..(n - 1) -> [0..(n - 1) -> 0..PScale]]
    /\ rewards = [s \in 0..(n - 1) |-> Min(s, MaxReward)]
    /\ horizon = DefaultHorizon
    /\ Constructed

Next ==
    \/ Reset
    \/ \E action \in -1..n : Step(action)
    \/ GetRewardPerAction
    \/ GetTransitionMatrix

NextT ==
    \/ Reset
    \/ GetTransitionMatrix

Spec == Init /\ [][Next]_vars

SpecT == InitT /\ [][NextT]_vars

\* ============================================================== claims
\* The successor rule as the specification states it.
Clamp(x, lo, hi) == IF x < lo THEN lo ELSE IF x > hi THEN hi ELSE x
Successor(s, a) == Clamp(s + (IF a = 0 THEN -1 ELSE 1), 0, n - 1)

ValidStepCall == call.op = "step" /\ call.action \in 0..(n - 1)
StepReturned == ret.op = "step" /\ ret.kind = "return"

\* C1: for every n, every state s in [0, n-1] and every valid action a,
\* step(a) stores clamp(s - 1, 0, n-1) when a = 0 and clamp(s + 1, 0, n-1)
\* otherwise, and returns that same value as nextState; the stored state
\* stays in [0, n-1].
C1_StepStoresAndReturnsSuccessor ==
    ValidStepCall =>
        /\ state = Successor(call.state, call.action)
        /\ state \in 0..(n - 1)
        /\ ret.kind = "return"
        /\ ret.next_state = state

\* C2: from any reachable state, reset() sets state = 0 and
\* transition_count = 0 and returns (0, empty info).
C2_ResetReturnsToStart ==
    ret.op = "reset" =>
        /\ state = 0
        /\ transition_count = 0
        /\ ret.kind = "return"
        /\ ret.state = 0
        /\ ret.info = {}

\* C2 witness: reset was called on an instance that had moved off state 0.
C2_Witness == ret.op = "reset" /\ call.state > 0 /\ call.transition_count = 0

C4_InvalidActionRejected ==
    (call.op = "step" /\ call.action \notin 0..(n - 1)) =>
        /\ ret.kind = "raise"
        /\ ret.error = "RuntimeError"
        /\ state = call.state
        /\ transition_count = call.transition_count

\* C4 witness: action 2 was rejected by a 2-state instance that had moved.
C4_Witness ==
    /\ call.op = "step" /\ n = 2 /\ call.action = 2
    /\ ret.kind = "raise" /\ state = 1 /\ transition_count = 0

\* C5: every step that returns, returns terminated = false.
C5_NeverTerminated == StepReturned => ret.terminated = FALSE

\* C5 witness: a second or later step returned on arriving at the last state.
C5_Witness == StepReturned /\ n >= 2 /\ state = n - 1 /\ steps >= 2

\* C6: for every step taken after a reset, truncated is true if and only if
\* transition_count >= horizon at that step.
C6_TruncatedIffCountReachedHorizon ==
    (ValidStepCall /\ call.transition_count >= 0) =>
        /\ ret.kind = "return"
        /\ ret.truncated <=> (call.transition_count >= horizon)

\* C6 witness: a step after reset returned truncated = true.
C6_Witness == StepReturned /\ ret.truncated /\ call.transition_count >= horizon

\* C7 as stated: T[s][a][s'] is non-zero iff s' = successor(s,a), and
\* T[s][a][successor(s,a)] = P[s][a], for every P with entries in [0,1].
C7_NonZeroIffSuccessor ==
    ret.op = "get_transition_matrix" =>
        \A s \in 0..(n - 1), a \in 0..(n - 1) :
            /\ \A s2 \in 0..(n - 1) :
                   (ret.T[s][a][s2] # 0) <=> (s2 = Successor(s, a))
            /\ ret.T[s][a][Successor(s, a)] = P[s][a]

\* C7 amended: T[s][a][s'] = P[s][a] when s' = successor(s,a) and 0
\* otherwise, both in the tensor returned by get_transition_matrix() and in
\* the one cached at construction; so T[s,a,:] has exactly one non-zero entry
\* when P[s][a] is non-zero and none when P[s][a] = 0.
C7_SuccessorCellHoldsP ==
    ret.op = "get_transition_matrix" =>
        /\ ret.T = T
        /\ \A s \in 0..(n - 1), a \in 0..(n - 1) :
            /\ \A s2 \in 0..(n - 1) :
                   ret.T[s][a][s2] = IF s2 = Successor(s, a) THEN P[s][a] ELSE 0
            /\ Cardinality({s2 \in 0..(n - 1) : ret.T[s][a][s2] # 0})
                   = IF P[s][a] # 0 THEN 1 ELSE 0

\* C7 witness: the tensor was built for a 2-state P with a zero entry, a
\* non-zero entry on a clamped move and a non-zero entry on a real move.
C7_Witness ==
    /\ ret.op = "get_transition_matrix" /\ n = 2
    /\ P[0][1] = 0 /\ P[0][0] # 0 /\ P[1][0] # 0
    /\ ret.T[1][0][0] # 0

\* C8: get_reward_per_action()[s][a] = rewards[successor(s,a)] for all s, a
\* in [0, n-1], and the call changes neither state nor transition counter.
C8_RewardPerActionIsSuccessorReward ==
    ret.op = "get_reward_per_action" =>
        /\ DOMAIN ret.R = 0..(n - 1)
        /\ \A s \in 0..(n - 1) :
            /\ DOMAIN ret.R[s] = 0..(n - 1)
            /\ \A a \in 0..(n - 1) : ret.R[s][a] = rewards[Successor(s, a)]
        /\ state = call.state
        /\ transition_count = call.transition_count

\* C8 witness: the table was computed on a 3-state instance standing on a
\* non-start state whose two neighbours carry different rewards.
C8_Witness ==
    /\ ret.op = "get_reward_per_action" /\ n = 3 /\ state = 1
    /\ rewards[0] # rewards[2]
    /\ ret.R[1][0] # ret.R[1][2] /\ ret.R[0][0] = rewards[0]

\* C9: right after construction the instance has state = 0 and
\* transition_count = 0 as after reset, and the first step taken after
\* construction completes like the first step after reset.
C9_ConstructedIsReady ==
    /\ ret.op = "__init__" => (state = 0 /\ transition_count = 0)
    /\ (ValidStepCall /\ steps = 1) => ret.kind = "return"

\* C10: step never changes the transition counter, and with horizon >= 1 no
\* step ever returns truncated = true, however many steps are taken.
C10_TruncationUnreachable ==
    /\ call.op = "step" => transition_count = call.transition_count
    /\ (horizon >= 1 /\ StepReturned) => ret.truncated = FALSE

\* C10 witness: more than horizon consecutive steps were taken since the last
\* reset and the last one returned truncated = false.
C10_Witness ==
    /\ StepReturned /\ horizon >= 1 /\ steps > horizon
    /\ ret.truncated = FALSE /\ call.transition_count = 0

====
